---- MODULE Spec2Model ----
(***************************************************************************)
(* Model of the data-quality scoring engine of eda-cli:                    *)
(*   homeworks/HW03/eda-cli/src/eda_cli/core.py  compute_quality_flags     *)
(* and of the way its callers (tests, HW04 cli.py) pass thresholds.        *)
(*                                                                         *)
(* A table is a sequence of named, typed columns plus a row count.  A cell *)
(* is <<>> when the value is missing (None / NaN) and <<v>> otherwise.     *)
(* Floats are modelled as exact rationals <<num, den>> with den > 0; the   *)
(* pair <<0, 0>> is NaN, the result of 0 / 0 in pandas and numpy.          *)
(***************************************************************************)
EXTENDS Integers, Sequences, FiniteSets, TLC

VARIABLES df, kwargs, pc, flags

vars == <<df, kwargs, pc, flags>>

(***************************************************************************)
(* Bounds of the explored inputs.                                          *)
(***************************************************************************)
MaxCols == 3
MaxCells == 6

(***************************************************************************)
(* Rational arithmetic standing for Python / numpy float arithmetic.       *)
(***************************************************************************)
NaN == <<0, 0>>

Abs(x) == IF x < 0 THEN -x ELSE x

RECURSIVE GCD(_, _)
GCD(a, b) == IF b = 0 THEN a ELSE GCD(b, a % b)

Norm(q) ==
  IF q[2] = 0 THEN NaN
  ELSE LET g == GCD(Abs(q[1]), q[2]) IN <<q[1] \div g, q[2] \div g>>

IsNaN(q) == q[2] = 0

\* a / b on numpy integers: 0 / 0 is nan, no exception is raised
Div(a, b) == Norm(<<a, b>>)

Add(p, q) == IF IsNaN(p) \/ IsNaN(q) THEN NaN
             ELSE Norm(<<p[1] * q[2] + q[1] * p[2], p[2] * q[2]>>)

Sub(p, q) == Add(p, <<-q[1], q[2]>>)

Mul(p, q) == IF IsNaN(p) \/ IsNaN(q) THEN NaN
             ELSE Norm(<<p[1] * q[1], p[2] * q[2]>>)

\* every comparison with nan is False
Gt(p, q) == ~IsNaN(p) /\ ~IsNaN(q) /\ p[1] * q[2] > q[1] * p[2]

Ge(p, q) == ~IsNaN(p) /\ ~IsNaN(q) /\ p[1] * q[2] >= q[1] * p[2]

\* Python's max(a, b) and min(a, b): the first argument unless the second wins
PyMax(a, b) == IF Gt(b, a) THEN b ELSE a

PyMin(a, b) == IF Gt(a, b) THEN b ELSE a

Zero == <<0, 1>>

One == <<1, 1>>

(***************************************************************************)
(* Column names are sequences of characters.                               *)
(***************************************************************************)
Digit == <<"0", "1", "2", "3", "4", "5", "6", "7">>

Stems == { <<"u", "I", "d">>, <<"d", "i">> }

\* str.lower() on the characters that occur in the names
LowerChar(ch) ==
  CASE ch = "I" -> "i"
    [] ch = "D" -> "d"
    [] ch = "U" -> "u"
    [] OTHER -> ch

Lower(s) == [k \in 1..Len(s) |-> LowerChar(s[k])]

\* Python's  sub in s  for strings
Contains(sub, s) ==
  \E k \in 0..(Len(s) - Len(sub)) :
    \A m \in 1..Len(sub) : s[k + m] = sub[m]

(***************************************************************************)
(* Tables.                                                                 *)
(***************************************************************************)
NULL == <<>>

NumericDtypes == {"float64"}

CategoricalDtypes == {"object"}

Dtypes == NumericDtypes \cup CategoricalDtypes

\* the value a raw code stands for in a column of the given dtype
Cell(dtype, code) ==
  IF code = 0 THEN NULL
  ELSE IF dtype \in NumericDtypes THEN <<code - 1>>
  ELSE IF code = 1 THEN <<"a">> ELSE <<"b">>

Codes == 0..2

RowLimit(c) == IF c = 0 THEN MaxCells ELSE MaxCells \div c

Column(j, stem, dtype, codes) ==
  [name |-> stem \o <<Digit[j]>>,
   dtype |-> dtype,
   values |-> [i \in 1..Len(codes) |-> Cell(dtype, codes[i])]]

\* len(df)
len(t) == t.nrows

NCols(t) == Len(t.columns)

(***************************************************************************)
(* pandas operations used by compute_quality_flags.                        *)
(***************************************************************************)
\* Series.isnull().sum()
isnull_sum(values) == Cardinality({i \in 1..Len(values) : values[i] = NULL})

\* Series.nunique(): distinct values, missing values dropped
\* variant: missing values counted as a value (dropna=False)
nunique_keepna(values) == Cardinality({values[i] : i \in 1..Len(values)})
nunique(values) == Cardinality({values[i] : i \in 1..Len(values)} \ {NULL})

\* Series.duplicated().sum(): rows equal to an earlier row (NaN equals NaN)
series_duplicated_sum(values) ==
  Cardinality({i \in 1..Len(values) : \E j \in 1..(i - 1) : values[j] = values[i]})

Row(t, i) == [j \in 1..NCols(t) |-> t.columns[j].values[i]]

\* DataFrame.duplicated().sum(); an empty frame gives an empty Series
frame_duplicated_sum(t) ==
  IF len(t) = 0 \/ NCols(t) = 0 THEN 0
  ELSE Cardinality({i \in 1..len(t) : \E j \in 1..(i - 1) : Row(t, j) = Row(t, i)})

\* (Series == 0).sum()
zero_count(values) == Cardinality({i \in 1..Len(values) : values[i] = <<0>>})

IsCategorical(col) == col.dtype \in CategoricalDtypes

IsNumeric(col) == col.dtype \in NumericDtypes

\* variant: Series.min()
SeriesMin(shares) ==
  LET good == {k \in 1..Len(shares) : ~IsNaN(shares[k])}
  IN IF good = {} THEN NaN
     ELSE shares[CHOOSE k \in good : \A m \in good : Ge(shares[m], shares[k])]
\* Series.max(), NaN skipped; NaN when nothing is left
SeriesMax(shares) ==
  LET good == {k \in 1..Len(shares) : ~IsNaN(shares[k])}
  IN IF good = {} THEN NaN
     ELSE shares[CHOOSE k \in good : \A m \in good : Ge(shares[k], shares[m])]

(***************************************************************************)
(* Keyword arguments: a dict from key to a tagged value.                   *)
(***************************************************************************)
Num(q) == [kind |-> "num", val |-> q]

Str == [kind |-> "str", val |-> NaN]

DefaultHighCardinalityThreshold == 100

DefaultZeroThreshold == <<1, 2>>

\* dict.get(key, default)
Get(kw, key, default) == IF key \in DOMAIN kw THEN kw[key] ELSE default

high_cardinality_threshold(kw) ==
  Get(kw, "high_cardinality_threshold", Num(<<DefaultHighCardinalityThreshold, 1>>))

zero_threshold(kw) == Get(kw, "zero_threshold", Num(DefaultZeroThreshold))

\* x > threshold raises TypeError when the threshold is a str
Raises(t, kw) ==
  \/ /\ high_cardinality_threshold(kw).kind = "str"
     /\ \E j \in 1..NCols(t) : IsCategorical(t.columns[j])
  \/ /\ zero_threshold(kw).kind = "str"
     /\ \E j \in 1..NCols(t) : IsNumeric(t.columns[j])

(***************************************************************************)
(* The six checks.                                                         *)
(***************************************************************************)
missing_counts(t) == [j \in 1..NCols(t) |-> isnull_sum(t.columns[j].values)]

missing_shares(counts, n) == [j \in 1..Len(counts) |-> Div(counts[j], n)]

Names(t) == {t.columns[j].name : j \in 1..NCols(t)}

ColumnIndex(t, nm) == CHOOSE j \in 1..NCols(t) : t.columns[j].name = nm

\* missing_shares.to_dict()
missing_shares_dict(t, shares) == [nm \in Names(t) |-> shares[ColumnIndex(t, nm)]]

\* missing_counts.any()
has_missing(counts) == \E j \in 1..Len(counts) : counts[j] # 0

\* variant: the first duplicate is not counted
has_duplicate_rows_strict(duplicate_count) == duplicate_count > 1
has_duplicate_rows(duplicate_count) == duplicate_count > 0

\* variants: at most one distinct value; missing values counted
IsConstantOrEmpty(values) == nunique(values) <= 1
IsConstantKeepNa(values) == nunique_keepna(values) = 1
IsConstant(values) == nunique(values) = 1

constant_columns(t) ==
  LET Test(col) == IsConstant(col.values)
      hit == SelectSeq(t.columns, Test)
  IN [k \in 1..Len(hit) |-> hit[k].name]

high_cardinality_cols(t, kw) ==
  LET thr == high_cardinality_threshold(kw).val
      Test(col) == IsCategorical(col) /\ Gt(<<nunique(col.values), 1>>, thr)
      hit == SelectSeq(t.columns, Test)
  IN [k \in 1..Len(hit) |-> <<hit[k].name, nunique(hit[k].values)>>]

\* variant: the name is not lowered
IsIdColumnCaseSensitive(name) == Contains(<<"i", "d">>, name)
IsIdColumn(name) == Contains(<<"i", "d">>, Lower(name))

suspicious_id_cols(t) ==
  LET Test(col) == IsIdColumn(col.name) /\ series_duplicated_sum(col.values) > 0
      hit == SelectSeq(t.columns, Test)
  IN [k \in 1..Len(hit) |-> <<hit[k].name, series_duplicated_sum(hit[k].values)>>]

zero_share(t, col) == Div(zero_count(col.values), len(t))

many_zero_cols(t, kw) ==
  LET thr == zero_threshold(kw).val
      Test(col) == IsNumeric(col) /\ Gt(zero_share(t, col), thr)
      hit == SelectSeq(t.columns, Test)
  IN [k \in 1..Len(hit) |-> <<hit[k].name, zero_share(t, hit[k])>>]

(***************************************************************************)
(* The penalty model.                                                      *)
(***************************************************************************)
MissingWeight == <<3, 10>>

DuplicateWeight == <<1, 2>>

DuplicateCap == <<1, 5>>

ConstantWeight == <<1, 10>>

HighCardinalityPenalty == <<15, 100>>

SuspiciousIdPenalty == <<2, 10>>

ManyZeroPenalty == <<1, 10>>

\* variant: the smallest share is penalised
MissingPenaltyOfMin(shares) == Mul(SeriesMin(shares), MissingWeight)
MissingPenalty(shares) == Mul(SeriesMax(shares), MissingWeight)

\* variant: no cap
DuplicatePenaltyUncapped(duplicate_count, n) ==
  Mul(Div(duplicate_count, n), DuplicateWeight)
DuplicatePenalty(duplicate_count, n) ==
  PyMin(Mul(Div(duplicate_count, n), DuplicateWeight), DuplicateCap)

\* 0.1 * k / c, evaluated left to right
ConstantPenalty(k, c) == Mul(Mul(ConstantWeight, <<k, 1>>), <<1, c>>)

\* lines 88-110: the accumulator, fed with what the checks computed
Penalty(shares, anyMissing, duplicate_count, n, constants, c, highCard, suspicious, manyZero) ==
  LET p1 == IF anyMissing THEN MissingPenalty(shares) ELSE Zero
      p2 == IF has_duplicate_rows(duplicate_count)
            THEN DuplicatePenalty(duplicate_count, n) ELSE Zero
      p3 == IF Len(constants) > 0 THEN ConstantPenalty(Len(constants), c) ELSE Zero
      p4 == IF Len(highCard) > 0 THEN HighCardinalityPenalty ELSE Zero
      p5 == IF Len(suspicious) > 0 THEN SuspiciousIdPenalty ELSE Zero
      p6 == IF Len(manyZero) > 0 THEN ManyZeroPenalty ELSE Zero
  IN Add(Add(Add(Add(Add(Add(Zero, p1), p2), p3), p4), p5), p6)

\* variant: no clamp at 0.0
QualityScoreUnclamped(penalty) == Sub(One, penalty)
QualityScore(penalty) == PyMax(Zero, Sub(One, penalty))

\* the dict the function starts from
InitialFlags ==
  [has_missing |-> FALSE,
   has_duplicate_rows |-> FALSE,
   has_constant_column |-> FALSE,
   has_high_cardinality_categories |-> FALSE,
   has_suspicious_id_duplicates |-> FALSE,
   has_many_zero_values |-> FALSE,
   quality_score |-> One]

compute_quality_flags(t, kw) ==
  LET counts == missing_counts(t)
      shares == missing_shares(counts, len(t))
      anyMissing == has_missing(counts)
      duplicate_count == frame_duplicated_sum(t)
      constants == constant_columns(t)
      highCard == high_cardinality_cols(t, kw)
      suspicious == suspicious_id_cols(t)
      manyZero == many_zero_cols(t, kw)
      penalty == Penalty(shares, anyMissing, duplicate_count, len(t), constants,
                         NCols(t), highCard, suspicious, manyZero)
  IN [has_missing |-> anyMissing,
      has_duplicate_rows |-> has_duplicate_rows(duplicate_count),
      has_constant_column |-> Len(constants) > 0,
      has_high_cardinality_categories |-> Len(highCard) > 0,
      has_suspicious_id_duplicates |-> Len(suspicious) > 0,
      has_many_zero_values |-> Len(manyZero) > 0,
      quality_score |-> QualityScore(penalty),
      metrics |-> [missing_shares |-> missing_shares_dict(t, shares),
                   duplicate_rows_count |-> duplicate_count,
                   constant_columns |-> constants,
                   high_cardinality_columns |-> highCard,
                   suspicious_id_columns |-> suspicious,
                   many_zero_columns |-> manyZero]]

(***************************************************************************)
(* The state machine: a caller holds a table and keyword arguments, calls  *)
(* compute_quality_flags once, and gets a report or an exception.          *)
(***************************************************************************)
HighCardinalityArgs == {Num(<<-1, 1>>), Num(<<1, 1>>), Str}

ZeroArgs == {Num(<<-1, 2>>)}

MaxCardinalityArgs == {Num(<<1, 1>>)}

KeywordArgs ==
  [high_cardinality_threshold |-> HighCardinalityArgs,
   zero_threshold |-> ZeroArgs,
   max_cardinality_threshold |-> MaxCardinalityArgs]

\* a call passes no keyword argument or one, as every call site does
Kwargs ==
  {[k \in {} |-> Str]} \cup
  UNION { {[k \in {key} |-> v] : v \in KeywordArgs[key]} : key \in DOMAIN KeywordArgs }

Init ==
  /\ \E c \in 0..MaxCols : \E n \in 0..RowLimit(c) :
       \E sh \in [1..c -> Stems \X Dtypes] : \E cd \in [1..c -> [1..n -> Codes]] :
         df = [nrows |-> n,
               columns |-> [j \in 1..c |-> Column(j, sh[j][1], sh[j][2], cd[j])]]
  /\ kwargs \in Kwargs
  /\ pc = "call"
  /\ flags = InitialFlags

Return ==
  /\ pc = "call"
  /\ ~Raises(df, kwargs)
  /\ flags' = compute_quality_flags(df, kwargs)
  /\ pc' = "returned"
  /\ UNCHANGED <<df, kwargs>>

RaiseTypeError ==
  /\ pc = "call"
  /\ Raises(df, kwargs)
  /\ pc' = "TypeError"
  /\ UNCHANGED <<df, kwargs, flags>>

Next == Return \/ RaiseTypeError

Spec == Init /\ [][Next]_vars

(***************************************************************************)
(* Vocabulary of the properties.                                           *)
(***************************************************************************)
Returned == pc = "returned"

Columns == {df.columns[j] : j \in 1..NCols(df)}

Elems(seq) == {seq[k] : k \in 1..Len(seq)}

AllFlagsFalse ==
  /\ ~flags.has_missing
  /\ ~flags.has_duplicate_rows
  /\ ~flags.has_constant_column
  /\ ~flags.has_high_cardinality_categories
  /\ ~flags.has_suspicious_id_duplicates
  /\ ~flags.has_many_zero_values

AllFlagsTrue ==
  /\ flags.has_missing
  /\ flags.has_duplicate_rows
  /\ flags.has_constant_column
  /\ flags.has_high_cardinality_categories
  /\ flags.has_suspicious_id_duplicates
  /\ flags.has_many_zero_values

\* the distinct non-missing values of a column
Present(col) == {col.values[i] : i \in 1..Len(col.values)} \ {NULL}

\* values equal to a value at an earlier row: all rows but one per distinct value
EarlierDuplicates(col) ==
  Len(col.values) - Cardinality({col.values[i] : i \in 1..Len(col.values)})

\* the name contains "id" in any letter case
NameHasId(name) ==
  \E k \in 1..(Len(name) - 1) : name[k] \in {"i", "I"} /\ name[k + 1] \in {"d", "D"}

ThresholdKeys == {"high_cardinality_threshold", "zero_threshold"}

DefaultThresholds == DOMAIN kwargs \cap ThresholdKeys = {}

\* the penalty the report's own flags and evidence call for
ClaimedPenalty ==
  LET m == flags.metrics
      shares == {m.missing_shares[nm] : nm \in DOMAIN m.missing_shares}
      max_missing_share == CHOOSE s \in shares : \A r \in shares : Ge(s, r)
      duplicate_row_share == <<m.duplicate_rows_count, len(df)>>
      half == Mul(duplicate_row_share, <<1, 2>>)
      t1 == IF flags.has_missing THEN Mul(max_missing_share, <<3, 10>>) ELSE Zero
      t2 == IF flags.has_duplicate_rows
            THEN (IF Gt(half, <<1, 5>>) THEN <<1, 5>> ELSE half) ELSE Zero
      t3 == IF flags.has_constant_column
            THEN Mul(<<1, 10>>, <<Len(m.constant_columns), NCols(df)>>) ELSE Zero
      t4 == IF flags.has_high_cardinality_categories THEN <<15, 100>> ELSE Zero
      t5 == IF flags.has_suspicious_id_duplicates THEN <<20, 100>> ELSE Zero
      t6 == IF flags.has_many_zero_values THEN <<10, 100>> ELSE Zero
  IN Add(t1, Add(t2, Add(t3, Add(t4, Add(t5, t6)))))

\* C1: the score of every returned report lies in [0.0, 1.0]
ScoreBounds ==
  Returned => Ge(flags.quality_score, Zero) /\ Ge(One, flags.quality_score)

\* the penalties add up to more than 1 and the score is clamped to 0.0
ScoreClamped ==
  /\ Returned
  /\ AllFlagsTrue
  /\ Gt(ClaimedPenalty, One)
  /\ flags.quality_score = Zero

\* C2: each flag is true iff its evidence is non-empty or positive
FlagEvidenceConsistency ==
  Returned =>
    LET m == flags.metrics IN
    /\ flags.has_missing <=>
         \E nm \in DOMAIN m.missing_shares : Gt(m.missing_shares[nm], Zero)
    /\ flags.has_duplicate_rows <=> m.duplicate_rows_count > 0
    /\ flags.has_constant_column <=> m.constant_columns # <<>>
    /\ flags.has_high_cardinality_categories <=> m.high_cardinality_columns # <<>>
    /\ flags.has_suspicious_id_duplicates <=> m.suspicious_id_columns # <<>>
    /\ flags.has_many_zero_values <=> m.many_zero_columns # <<>>

\* a report with exactly one duplicate row, flagged, beside unflagged checks
OneDuplicateRowFlagged ==
  /\ Returned
  /\ flags.metrics.duplicate_rows_count = 1
  /\ flags.has_duplicate_rows
  /\ flags.has_missing
  /\ ~flags.has_many_zero_values

\* C3: a negative or non-numeric threshold is rejected with InvalidConfiguration
\* before any check runs, and no report is returned
InvalidThresholdRejected ==
  (\E k \in DOMAIN kwargs \cap ThresholdKeys :
      kwargs[k].kind = "str" \/ Gt(Zero, kwargs[k].val))
    => pc \in {"call", "InvalidConfiguration"}

\* C4: an empty table under the default thresholds gives no error, no flag,
\* no evidence, no duplicate row and the score 1.0
EmptyTableSafety ==
  (DefaultThresholds /\ (len(df) = 0 \/ NCols(df) = 0)) =>
    /\ pc # "TypeError"
    /\ Returned =>
         /\ AllFlagsFalse
         /\ flags.metrics.constant_columns = <<>>
         /\ flags.metrics.high_cardinality_columns = <<>>
         /\ flags.metrics.suspicious_id_columns = <<>>
         /\ flags.metrics.many_zero_columns = <<>>
         /\ flags.metrics.duplicate_rows_count = 0
         /\ flags.quality_score = One

\* a report on a table with no rows and columns of both kinds
EmptyTableAnalysed ==
  /\ Returned
  /\ DefaultThresholds
  /\ len(df) = 0
  /\ \E c \in Columns : IsNumeric(c) /\ IsIdColumn(c.name)
  /\ \E c \in Columns : IsCategorical(c)

\* C5: with zero rows every reported missing share is 0.0
ZeroRowSharesAreZero ==
  (Returned /\ len(df) = 0) =>
    \A nm \in DOMAIN flags.metrics.missing_shares :
      flags.metrics.missing_shares[nm] = Zero

\* C6: the score is max(0.0, 1.0 - total_penalty) with the six contributions
ScoreFormula ==
  Returned =>
    LET total_penalty == ClaimedPenalty
    IN flags.quality_score =
         (IF Gt(One, total_penalty) THEN Sub(One, total_penalty) ELSE Zero)

\* duplicate rows whose half share exceeds the cap, beside other penalties
CappedDuplicatePenalty ==
  /\ Returned
  /\ flags.has_duplicate_rows
  /\ Gt(<<flags.metrics.duplicate_rows_count, 2 * len(df)>>, <<1, 5>>)
  /\ flags.has_missing
  /\ flags.has_constant_column
  /\ Gt(flags.quality_score, Zero)

\* C7: a threshold passed as max_cardinality_threshold decides the
\* high-cardinality flag
HonoursMaxCardinalityThreshold ==
  (Returned /\ "max_cardinality_threshold" \in DOMAIN kwargs) =>
    (flags.has_high_cardinality_categories <=>
       \E c \in Columns :
         /\ IsCategorical(c)
         /\ Gt(<<Cardinality(Present(c)), 1>>, kwargs["max_cardinality_threshold"].val))

\* C8: the constant columns are those with exactly one distinct non-missing
\* value, and the flag says whether there is one
ConstantColumnsExact ==
  Returned =>
    /\ \A c \in Columns :
         c.name \in Elems(flags.metrics.constant_columns) <=>
           \E v \in Present(c) : Present(c) = {v}
    /\ Elems(flags.metrics.constant_columns) \subseteq Names(df)
    /\ flags.has_constant_column <=> flags.metrics.constant_columns # <<>>

\* one value plus missing ones is listed, an all-missing column is not
ConstantBesideAllMissing ==
  /\ Returned
  /\ \E c \in Columns :
       /\ NULL \in Elems(c.values)
       /\ Cardinality(Present(c)) = 1
       /\ c.name \in Elems(flags.metrics.constant_columns)
  /\ \E c \in Columns :
       /\ Len(c.values) > 0
       /\ Present(c) = {}
       /\ c.name \notin Elems(flags.metrics.constant_columns)

\* C9: the suspicious-id evidence is exactly the columns named *id* (any
\* case) with repeated values, each with its count of repeats
SuspiciousIdExact ==
  Returned =>
    LET ev == flags.metrics.suspicious_id_columns IN
    /\ Elems(ev) = { <<c.name, EarlierDuplicates(c)>> :
                       c \in {d \in Columns : NameHasId(d.name) /\ EarlierDuplicates(d) > 0} }
    /\ Cardinality(Elems(ev)) = Len(ev)
    /\ flags.has_suspicious_id_duplicates <=> ev # <<>>

\* a mixed-case id column with a repeat is listed, a repeat elsewhere is not
MixedCaseIdListed ==
  /\ Returned
  /\ \E c \in Columns :
       /\ \E k \in 1..Len(c.name) : c.name[k] \in {"I", "D"}
       /\ <<c.name, 1>> \in Elems(flags.metrics.suspicious_id_columns)
  /\ \E c \in Columns : ~NameHasId(c.name) /\ EarlierDuplicates(c) > 0

\* C10: the score is 1.0 exactly when no flag is set
PerfectScoreIffNoFlags ==
  Returned => (flags.quality_score = One <=> AllFlagsFalse)

\* only the missing flag is set, one column is complete, and the score drops
OnlyMissingFlagged ==
  /\ Returned
  /\ flags.has_missing
  /\ ~flags.has_duplicate_rows
  /\ ~flags.has_constant_column
  /\ ~flags.has_high_cardinality_categories
  /\ ~flags.has_suspicious_id_duplicates
  /\ ~flags.has_many_zero_values
  /\ \E nm \in DOMAIN flags.metrics.missing_shares : flags.metrics.missing_shares[nm] = Zero
  /\ Gt(One, flags.quality_score)

====
